---- MODULE Spec2Model ----
(***************************************************************************)
(* A model of the trading engine of src/core.py (DataClient,               *)
(* PositionManager, OrderManager) and of the regime strategy of            *)
(* src/Strategy.py (RegimeTrader).  The asyncio event loop is cooperative: *)
(* every action below is the code that runs between two suspension points  *)
(* (an await that really yields: the HTTP call of insert_order, the timed  *)
(* sleep of RegimeTrader.main, the stream delivering one callback).        *)
(* Prices are in cents, quantities are integers.                           *)
(***************************************************************************)
EXTENDS Integers, Sequences, FiniteSets, TLC

\* ---------------------------------------------------------------- bounds
MaxBars == 2
MaxOrders == 2
MaxPos == 2
MaxCap == 1
MaxCalls == 2
MaxHist == 2
MaxTrades == 4

\* ------------------------------------------------------------- constants
FILL == "fill"
PARTIAL_FILL == "partial_fill"
FILL_EVENT == {FILL, PARTIAL_FILL}
CANCELED == "canceled"
\* A variant that also takes partial_fill and new for the end of an order.
ORDER_CYLE_END_EVENT_open == {FILL, CANCELED, PARTIAL_FILL, "new"}
ORDER_CYLE_END_EVENT == {FILL, CANCELED}
SIDE_BUY == "buy"
SIDE_SELL == "sell"
ALL_SIDES == {SIDE_BUY, SIDE_SELL}
ORDER_TYPE_LIMIT == "limit"
ORDER_TYPE_IOC == "ioc"
ALL_ORDER_TYPES == {ORDER_TYPE_LIMIT, ORDER_TYPE_IOC}

\* An optional value is <<>> or <<v>>: Python's None, a missing dictionary key
\* and a local variable that was never assigned are all <<>>.
None == <<>>
Absent == <<>>
Unbound == <<>>
Some(v) == <<v>>
Val(o) == o[1]

\* The symbols of the stream, the events the venue sends for an order, the
\* labels the regime model may return, and the values the feed carries.
Symbols == {"TSLA", "AAPL"}
Events == {"new", PARTIAL_FILL, FILL, CANCELED, "rejected"}
Labels == {0, 1, 2}
Mids == {100}
PosRange == (0 - MaxPos)..MaxPos
OrderIds == 1..MaxOrders

Abs(x) == IF x < 0 THEN 0 - x ELSE x

VARIABLES
    \* DataClient
    bar_hist, last_bar, last_mid_price, trade_update,
    last_trade_price, trade_tick_hist, last_quote,
    \* every trade tick the stream has delivered, per symbol, in arrival order
    trade_log,
    \* PositionManager, and the GET requests its last get_positions sent
    positions_by_symbol, get_requests,
    \* OrderManager, the requests it has posted, and the venue: its orders
    \* and the account's true position per symbol
    submitted_order_by_order_id, posted, venue, venue_pos,
    \* DataClient._symbols (each has a RegimeTrader), and whether
    \* DataClient.start has subscribed the stream
    symbols, stream,
    \* RegimeTrader, one per symbol: its configuration, its fields and the
    \* locals of main, and the calls of its model's predict (how many, and the
    \* matrix last passed)
    shortable, max_position, trader, predict,
    \* the parity of the number of loop iterations a trader has completed
    ticks,
    \* a direct caller of OrderManager.insert_order
    client,
    \* the event loop: FALSE once an exception left run_until_complete
    alive

tradeVars == <<last_trade_price, trade_tick_hist, trade_log>>
cacheVars == <<bar_hist, last_bar, last_mid_price, trade_update, last_quote, tradeVars>>
ledgerVars == <<positions_by_symbol, get_requests>>
orderVars == <<submitted_order_by_order_id, posted, venue, venue_pos>>
configVars == <<symbols, shortable, max_position>>
vars == <<bar_hist, last_bar, last_mid_price, trade_update, last_trade_price,
          trade_tick_hist, last_quote, trade_log, positions_by_symbol, get_requests,
          submitted_order_by_order_id, posted, venue, venue_pos, symbols, stream,
          shortable, max_position, trader, predict, ticks, client, alive>>

\* ------------------------------------------------------------ DataClient

\* A variant that returns the symbol's entry, an empty history included.
get_bar_hist_entry(s) == Some(bar_hist[s])
\* DataClient.get_bar_hist: defaultdict.get creates no entry; <<>> stands for
\* a missing key (on_bar appends to the deque it creates, so a present
\* history is never empty).
get_bar_hist(s) == IF bar_hist[s] = <<>> THEN None ELSE Some(bar_hist[s])

get_last_bar(s) == last_bar[s]

get_last_mid_price(s) == last_mid_price[s]

\* DataClient.get_trade_update(symbol, id): None when no update is stored.
get_trade_update(s, id) == trade_update[s][id]

\* DataClient.get_position_by_symbol: 0.0 for a symbol not in the ledger.
get_position_by_symbol(s) ==
    IF positions_by_symbol[s] = Absent THEN 0 ELSE Val(positions_by_symbol[s])

\* DataClient._max_trade_history, the capacity of a symbol's trade history.
max_trade_history == MaxHist

\* A variant that evicts down to one below the capacity.
popleft_below(hist) ==
    IF Len(hist) >= max_trade_history /\ hist # <<>> THEN Tail(hist) ELSE hist
\* on_trade's loop: popleft while the history is longer than the capacity.
RECURSIVE popleft_while(_)
popleft_while(hist) ==
    IF Len(hist) > max_trade_history THEN popleft_while(Tail(hist)) ELSE hist

\* DataClient.on_trade: the tick's price becomes the last trade price, the
\* tick is appended to the symbol's history and the oldest ticks are evicted.
\* A trade tick is its price.
on_trade(s, price) ==
    /\ alive /\ stream = "running" /\ s \in symbols
    /\ last_trade_price' = [last_trade_price EXCEPT ![s] = Some(price)]
    /\ trade_tick_hist' = [trade_tick_hist EXCEPT ![s] = popleft_while(Append(@, price))]
    /\ trade_log' = [trade_log EXCEPT ![s] = Append(@, price)]
    /\ UNCHANGED <<bar_hist, last_bar, last_mid_price, trade_update, last_quote,
                   ledgerVars, orderVars, configVars, stream, trader,
                   predict, ticks, client, alive>>

get_last_trade_price(s) == last_trade_price[s]

\* DataClient.on_bar
on_bar(s, close) ==
    /\ alive /\ stream = "running" /\ s \in symbols
    /\ last_bar' = [last_bar EXCEPT ![s] = Some(close)]
    /\ bar_hist' = [bar_hist EXCEPT ![s] = Append(@, close)]
    /\ UNCHANGED <<last_mid_price, trade_update, last_quote, tradeVars,
                   ledgerVars, orderVars, configVars, stream, trader,
                   predict, ticks, client, alive>>

\* round((ask + bid) * 0.5, 2) in cents: half of an even sum is exact, half of
\* an odd sum lies between two cents and the binary float decides which of
\* the two round() returns.
round_mid(ask, bid) == {(ask + bid) \div 2, (ask + bid + 1) \div 2}

\* A variant that sets the mid price whatever the sides.
on_quote_any_side(s, bid, ask) ==
    /\ alive /\ stream = "running" /\ s \in symbols
    /\ last_quote' = [last_quote EXCEPT ![s] = Some([bid_price |-> bid, ask_price |-> ask])]
    /\ \E midprice \in round_mid(ask, bid) :
           last_mid_price' = [last_mid_price EXCEPT ![s] = Some(midprice)]
    /\ UNCHANGED <<bar_hist, last_bar, trade_update, tradeVars, ledgerVars,
                   orderVars, configVars, stream, trader, predict, ticks, client,
                   alive>>
\* DataClient.on_quote: the quote is stored, and the mid price is set only
\* when both sides are non-zero.
on_quote(s, bid, ask) ==
    /\ alive /\ stream = "running" /\ s \in symbols
    /\ last_quote' = [last_quote EXCEPT ![s] = Some([bid_price |-> bid, ask_price |-> ask])]
    /\ IF ask # 0 /\ bid # 0
       THEN \E midprice \in round_mid(ask, bid) :
                last_mid_price' = [last_mid_price EXCEPT ![s] = Some(midprice)]
       ELSE UNCHANGED last_mid_price
    /\ UNCHANGED <<bar_hist, last_bar, trade_update, tradeVars, ledgerVars,
                   orderVars, configVars, stream, trader, predict, ticks, client,
                   alive>>

\* A variant that adds the quantity to the stored one.
update_position_add(pbs, s, qty) ==
    [pbs EXCEPT ![s] = Some((IF @ = Absent THEN 0 ELSE Val(@)) + qty)]
\* PositionManager.update_position: replaces the stored quantity.
update_position(pbs, s, qty) == [pbs EXCEPT ![s] = Some(qty)]

\* DataClient.on_trade_update for the event ev of order id of symbol s
\* carrying the account's resulting position: a fill event replaces the
\* ledger's quantity, and every event is stored under the symbol and the id.
on_trade_update(s, id, ev, position_qty) ==
    /\ positions_by_symbol' = IF ev \in FILL_EVENT
                              THEN update_position(positions_by_symbol, s, position_qty)
                              ELSE positions_by_symbol
    /\ trade_update' = [trade_update EXCEPT ![s][id] = Some([event |-> ev])]

\* The venue's order life cycle: an accepted order is open until the venue
\* fills, cancels or rejects it, and every change is pushed as one trade
\* update.  A fill moves the account's position by the quantity filled, in
\* the order's direction, and the update carries the resulting position.
VenueOpen == {"accepted", "new", PARTIAL_FILL}
VenueClosed == {FILL, CANCELED, "rejected"}
Signed(side, k) == IF side = SIDE_BUY THEN k ELSE 0 - k

trade_update_event(id, ev, k) ==
    /\ alive /\ stream = "running"
    /\ id <= Len(posted)
    /\ venue[id].status \in VenueOpen
    /\ ev = "new" => venue[id].status = "accepted"
    /\ LET order == posted[id].request
           s == order.symbol
           position_qty == venue_pos[s] + Signed(order.side, k)
       IN  /\ s \in symbols
           /\ position_qty \in PosRange
           /\ venue' = [venue EXCEPT ![id] = [status |-> ev, filled |-> @.filled + k]]
           /\ venue_pos' = [venue_pos EXCEPT ![s] = position_qty]
           /\ on_trade_update(s, id, ev, position_qty)
    /\ UNCHANGED <<bar_hist, last_bar, last_mid_price, last_quote, tradeVars,
                   get_requests, submitted_order_by_order_id, posted, configVars,
                   stream, trader, predict, ticks, client, alive>>

\* ------------------------------------------------------- PositionManager

\* A variant that keeps the listed symbols only.
get_positions_listed_only(pbs, status, response) ==
    IF status = "200" THEN response ELSE pbs
\* A variant that empties the ledger when the fetch fails.
get_positions_reset_on_failure(pbs, status, response) ==
    IF status = "200"
    THEN [s \in Symbols |-> IF response[s] # Absent THEN response[s] ELSE pbs[s]]
    ELSE [s \in Symbols |-> Absent]
\* PositionManager.get_positions applied to the ledger pbs: a 200 response
\* lists some symbols with their quantity (Absent: not listed) and each one
\* listed replaces the stored quantity; any other status and any exception
\* are logged and leave the ledger as it was.
get_positions(pbs, status, response) ==
    IF status = "200"
    THEN [s \in Symbols |-> IF response[s] # Absent THEN response[s] ELSE pbs[s]]
    ELSE pbs

HttpStatus == {"200", "non200", "exception"}
Responses == [Symbols -> {Absent} \cup {Some(q) : q \in PosRange}]

\* DataClient.start: a new PositionManager is created (an empty ledger filled
\* by one get_positions) and put in place, then the stream is subscribed.
start(status, response) ==
    /\ alive /\ stream = "stopped"
    /\ positions_by_symbol' =
           get_positions([s \in Symbols |-> Absent], status, response)
    /\ get_requests' = 1
    /\ stream' = "running"
    /\ UNCHANGED <<cacheVars, orderVars, configVars, trader, predict, ticks, client,
                   alive>>

\* ---------------------------------------------------------- OrderManager

\* A variant that asserts the side only.
insert_order_asserts_side_only(side, order_type) ==
    side \in ALL_SIDES
\* OrderManager.insert_order, its two assertions.
insert_order_asserts(side, order_type) ==
    side \in ALL_SIDES /\ order_type \in ALL_ORDER_TYPES

\* A variant that forwards order_type as the order's type.
params_forward(symbol, price, quantity, side, order_type) ==
    [symbol |-> symbol, qty |-> quantity, side |-> side, type |-> order_type,
     limit_price |-> price, time_in_force |-> ORDER_TYPE_IOC]
\* OrderManager.insert_order, the JSON body of the POST.
params(symbol, price, quantity, side, order_type) ==
    [symbol |-> symbol, qty |-> quantity, side |-> side, type |-> ORDER_TYPE_LIMIT,
     limit_price |-> price, time_in_force |-> ORDER_TYPE_IOC]

\* What the venue and the transport can do with one POST: the venue accepts
\* the order and answers 200 with its id, it answers another status, or the
\* call raises.  The venue accepts no order whose quantity is not positive.
Outcomes == {[status |-> "200", accepted |-> TRUE],
             [status |-> "non200", accepted |-> FALSE],
             [status |-> "exception", accepted |-> FALSE]}

\* The POST of insert_order by caller c: the request goes out (the log of
\* requests sent, whose index is the id the venue gives the order), and the
\* call is suspended until the reply.
post(c, symbol, price, quantity, side, order_type, outcome) ==
    /\ Len(posted) < MaxOrders
    /\ outcome.accepted => quantity > 0
    /\ posted' = Append(posted,
           [request |-> params(symbol, price, quantity, side, order_type),
            args |-> [symbol |-> symbol, price |-> price, quantity |-> quantity,
                      side |-> side, order_type |-> order_type],
            caller |-> c])
    /\ venue' = [venue EXCEPT ![Len(posted) + 1].status =
                     IF outcome.accepted THEN "accepted" ELSE "none"]
    /\ UNCHANGED venue_pos

reply(outcome, id) == [status |-> outcome.status, id |-> id]

\* InsertOrderResponse as insert_order builds it from the reply.
InsertOrderResponse(r) ==
    IF r.status = "200"
    THEN [success |-> TRUE, order_id |-> Some(r.id), error_reason |-> None]
    ELSE [success |-> FALSE, order_id |-> None,
          error_reason |-> Some(IF r.status = "non200"
                                THEN "Error (Status)" ELSE "exception")]

\* A variant that records the id whatever the reply.
record_submitted_always(sub, symbol, r) ==
    [sub EXCEPT ![symbol] = @ \cup {r.id}]
\* insert_order records the id under the symbol of a 200 reply only.
record_submitted(sub, symbol, r) ==
    IF r.status = "200" THEN [sub EXCEPT ![symbol] = @ \cup {r.id}] ELSE sub

\* ---------------------------------------------------------- RegimeTrader

\* RegimeTrader.__init__, with the locals of main not yet assigned.
NewTrader ==
    [pc |-> "start", error |-> None, resp |-> None,
     last_close_price |-> None, last_bar_hist_size |-> None,
     bull_regime |-> None, bear_regime |-> None, feature_array |-> <<>>,
     side |-> None, last_order_id |-> None,
     price_modifier |-> Unbound, volume |-> Unbound, last_order_close |-> Unbound]

NoPredict == [calls |-> 0, X |-> None]

\* A variant whose Bull branch is cap - pos_qty for a short position too.
order_volume_no_abs(bull, bear, short, cap, pos_qty) ==
    IF bull = Some(TRUE)
    THEN Some(cap - pos_qty)
    ELSE IF bear = Some(TRUE)
         THEN IF short
              THEN Some(IF pos_qty > 0 THEN Abs(pos_qty) ELSE cap - Abs(pos_qty))
              ELSE Some(Abs(pos_qty))
         ELSE Unbound
\* RegimeTrader.order_volume for the regime flags, the configuration and the
\* position read from the ledger; Unbound when no branch assigns volume
\* (return volume then raises UnboundLocalError).
order_volume(bull, bear, short, cap, pos_qty) ==
    IF bull = Some(TRUE)
    THEN Some(IF pos_qty >= 0 THEN cap - pos_qty ELSE Abs(pos_qty))
    ELSE IF bear = Some(TRUE)
         THEN IF short
              THEN Some(IF pos_qty > 0 THEN Abs(pos_qty) ELSE cap - Abs(pos_qty))
              ELSE Some(Abs(pos_qty))
         ELSE Unbound

RECURSIVE Gcd(_, _)
Gcd(a, b) == IF b = 0 THEN a ELSE Gcd(b, a % b)

\* RegimeTrader.calculate_features: the log return is a function of the ratio
\* close / last close, kept here as the reduced fraction; the three other
\* features are ratios within the bar, which the model's bars (a close price)
\* do not vary.
calculate_features(close, last_close_price) ==
    <<close \div Gcd(close, last_close_price),
      last_close_price \div Gcd(close, last_close_price)>>

\* A variant that never holds an order back.
last_order_is_close_always(last_order_id, s) == TRUE
\* RegimeTrader.last_order_is_close
last_order_is_close(last_order_id, s) ==
    IF last_order_id = None
    THEN TRUE
    ELSE IF get_trade_update(s, Val(last_order_id)) = None
         THEN TRUE
         ELSE Val(get_trade_update(s, Val(last_order_id))).event \in ORDER_CYLE_END_EVENT

\* A variant that takes the first label of the prediction.
predict_first(regime_pred_seq) == regime_pred_seq[1]
\* self._model.predict(self._feature_array)[-1]: predict returns one label per
\* row of the matrix, and main takes the last.
predict_last(regime_pred_seq) == regime_pred_seq[Len(regime_pred_seq)]

\* What predict may return for the matrix of trader s with one more row.
Predictions(s) == [1..(Len(trader[s].feature_array) + 1) -> Labels]

\* A variant that sets the flag of the predicted regime and leaves the other.
set_regime_keep_other_flag(t, regime_pred) ==
    IF regime_pred = 1
    THEN [t EXCEPT !.bear_regime = Some(TRUE),
                   !.side = Some(SIDE_SELL), !.price_modifier = Some(0 - 10)]
    ELSE IF regime_pred = 0
         THEN [t EXCEPT !.bull_regime = Some(TRUE),
                        !.side = Some(SIDE_BUY), !.price_modifier = Some(10)]
         ELSE t
\* main, the branch of a grown bar history: one feature row from the last
\* bar, the model's prediction over the whole matrix (label is its last
\* element), the regime fields, and the bar bookkeeping.
set_regime(t, regime_pred) ==
    IF regime_pred = 1
    THEN [t EXCEPT !.bear_regime = Some(TRUE), !.bull_regime = Some(FALSE),
                   !.side = Some(SIDE_SELL), !.price_modifier = Some(0 - 10)]
    ELSE IF regime_pred = 0
         THEN [t EXCEPT !.bear_regime = Some(FALSE), !.bull_regime = Some(TRUE),
                        !.side = Some(SIDE_BUY), !.price_modifier = Some(10)]
         ELSE t

new_bar(t, s, label) ==
    LET bar == Val(get_last_bar(s))
        feature == calculate_features(bar, Val(t.last_close_price))
        t1 == [t EXCEPT !.feature_array = Append(@, feature)]
        t2 == set_regime(t1, label)
    IN  [t2 EXCEPT !.last_bar_hist_size = Some(Len(bar_hist[s])),
                   !.last_close_price = Some(bar)]

raise(t, e) == [t EXCEPT !.pc = "raised", !.error = Some(e)]

\* main, from order_volume to the decision to insert an order (the record
\* keeps the locals; pc says where the iteration suspends or that it raised).
evaluate(t, s) ==
    LET volume == order_volume(t.bull_regime, t.bear_regime, shortable[s],
                               max_position[s], get_position_by_symbol(s))
        mid_price == get_last_mid_price(s)
        last_order_close == last_order_is_close(t.last_order_id, s)
    IN  IF volume = Unbound
        THEN raise(t, "UnboundLocalError")
        ELSE IF t.price_modifier = Unbound
        THEN raise([t EXCEPT !.volume = volume], "UnboundLocalError")
        ELSE IF mid_price = None
        THEN raise([t EXCEPT !.volume = volume], "TypeError")
        ELSE [t EXCEPT !.volume = volume, !.last_order_close = Some(last_order_close),
                       !.pc = IF Val(volume) # 0 /\ last_order_close
                              THEN "insert_order" ELSE "sleep"]

\* A variant that goes to sleep when it finds no new bar.
iteration_idle_without_new_bar(s, label) ==
    LET t == trader[s]
        bar_hist_s == get_bar_hist(s)
    IN  IF bar_hist_s = None
        THEN [t |-> [t EXCEPT !.pc = "sleep"], branch |-> "no_bars", predict |-> None]
        ELSE IF Len(Val(bar_hist_s)) = 1
        THEN [t |-> [t EXCEPT !.last_close_price = get_last_bar(s),
                              !.last_bar_hist_size = Some(1), !.pc = "sleep"],
              branch |-> "first_bar", predict |-> None]
        ELSE IF t.last_bar_hist_size = None
        THEN [t |-> raise(t, "TypeError"), branch |-> "compare", predict |-> None]
        ELSE IF Len(Val(bar_hist_s)) = Val(t.last_bar_hist_size)
        THEN [t |-> [t EXCEPT !.pc = "sleep"], branch |-> "no_new_bar", predict |-> None]
        ELSE IF Len(Val(bar_hist_s)) > Val(t.last_bar_hist_size)
        THEN [t |-> evaluate(new_bar(t, s, label), s), branch |-> "new_bar",
              predict |-> Some(new_bar(t, s, label).feature_array)]
        ELSE [t |-> evaluate(t, s), branch |-> "shrunk", predict |-> None]
\* One iteration of the loop of main up to its next suspension point, as the
\* trader record it leaves and what it did.
iteration(s, label) ==
    LET t == trader[s]
        bar_hist_s == get_bar_hist(s)
    IN  IF bar_hist_s = None
        THEN [t |-> [t EXCEPT !.pc = "sleep"], branch |-> "no_bars", predict |-> None]
        ELSE IF Len(Val(bar_hist_s)) = 1
        THEN [t |-> [t EXCEPT !.last_close_price = get_last_bar(s),
                              !.last_bar_hist_size = Some(1), !.pc = "sleep"],
              branch |-> "first_bar", predict |-> None]
        ELSE IF t.last_bar_hist_size = None
        THEN \* bar_hist_size > None raises TypeError
             [t |-> raise(t, "TypeError"), branch |-> "compare", predict |-> None]
        ELSE IF Len(Val(bar_hist_s)) = Val(t.last_bar_hist_size)
        THEN [t |-> evaluate(t, s), branch |-> "no_new_bar", predict |-> None]
        ELSE IF Len(Val(bar_hist_s)) > Val(t.last_bar_hist_size)
        THEN [t |-> evaluate(new_bar(t, s, label), s), branch |-> "new_bar",
              predict |-> Some(new_bar(t, s, label).feature_array)]
        ELSE [t |-> evaluate(t, s), branch |-> "shrunk", predict |-> None]

\* RegimeTrader.main: the loop wakes (from its start or its sleep) and runs
\* one iteration; an order to insert is posted (the assertions of
\* insert_order hold or AssertionError is raised) and the loop waits for the
\* reply; an exception ends the task, and with it run_until_complete.
main(s, regime_pred_seq, outcome) ==
    /\ alive /\ s \in symbols
    /\ trader[s].pc \in {"start", "sleep"}
    /\ LET it == iteration(s, predict_last(regime_pred_seq))
           t == it.t
           price == Val(get_last_mid_price(s)) + Val(t.price_modifier)
       IN  /\ predict' = IF it.predict = None THEN predict
                          ELSE [predict EXCEPT ![s] = [calls |-> @.calls + 1,
                                                       X |-> it.predict]]
           /\ IF t.pc = "insert_order"
              THEN IF t.side # None /\ insert_order_asserts(Val(t.side), ORDER_TYPE_IOC)
                   THEN /\ post(s, s, price, Val(t.volume), Val(t.side),
                               ORDER_TYPE_IOC, outcome)
                        /\ trader' = [trader EXCEPT ![s] =
                               [t EXCEPT !.resp = Some(reply(outcome, Len(posted) + 1))]]
                        /\ UNCHANGED alive
                   ELSE /\ trader' = [trader EXCEPT ![s] = raise(t, "AssertionError")]
                        /\ alive' = FALSE
                        /\ UNCHANGED <<posted, venue, venue_pos>>
              ELSE /\ trader' = [trader EXCEPT ![s] = t]
                   /\ alive' = (t.pc # "raised")
                   /\ UNCHANGED <<posted, venue, venue_pos>>
    /\ UNCHANGED <<cacheVars, ledgerVars, submitted_order_by_order_id,
                   configVars, stream, client>>

\* main, the reply of insert_order arrives: the order id is recorded under
\* the symbol on success, the response's order_id (None on failure) becomes
\* the trader's last order id, and the loop goes to sleep.
insert_order_returns(s) ==
    /\ alive /\ s \in symbols
    /\ trader[s].pc = "insert_order"
    /\ LET order == InsertOrderResponse(Val(trader[s].resp))
       IN  /\ submitted_order_by_order_id' =
                  record_submitted(submitted_order_by_order_id, s, Val(trader[s].resp))
           /\ trader' = [trader EXCEPT ![s] =
                  [@ EXCEPT !.last_order_id = order.order_id, !.resp = None,
                            !.pc = "sleep"]]
    /\ UNCHANGED <<cacheVars, ledgerVars, posted, venue, venue_pos,
                   configVars, stream, predict, ticks, client, alive>>

\* --------------------------------------- a direct caller of insert_order

NewClient ==
    [pc |-> "idle", args |-> None, resp |-> None, result |-> None, error |-> None]

Sides == ALL_SIDES \cup {"hold"}
OrderTypes == ALL_ORDER_TYPES \cup {"market"}

\* OrderManager.insert_order called with any arguments: an assertion that
\* fails raises AssertionError before anything is sent; otherwise the request
\* is posted and the call waits for the reply.
insert_order(symbol, price, quantity, side, order_type, outcome) ==
    /\ alive /\ client.pc # "insert_order"
    /\ Len(posted) < MaxCalls
    /\ IF insert_order_asserts(side, order_type)
       THEN /\ post("client", symbol, price, quantity, side, order_type, outcome)
            /\ client' = [pc |-> "insert_order", result |-> None, error |-> None,
                          args |-> Some(<<symbol, price, quantity, side, order_type>>),
                          resp |-> Some(reply(outcome, Len(posted) + 1))]
       ELSE /\ client' = [pc |-> "raised", result |-> None, resp |-> None,
                          args |-> Some(<<symbol, price, quantity, side, order_type>>),
                          error |-> Some("AssertionError")]
            /\ UNCHANGED <<posted, venue, venue_pos>>
    /\ UNCHANGED <<cacheVars, ledgerVars, submitted_order_by_order_id,
                   configVars, stream, trader, predict, ticks, alive>>

\* OrderManager.insert_order, from the reply to the return.
insert_order_result ==
    /\ alive /\ client.pc = "insert_order"
    /\ LET r == Val(client.resp)
       IN  /\ submitted_order_by_order_id' =
                  record_submitted(submitted_order_by_order_id,
                                   posted[r.id].request.symbol, r)
           /\ client' = [client EXCEPT !.pc = "idle", !.resp = None,
                                       !.result = Some(InsertOrderResponse(r))]
    /\ UNCHANGED <<cacheVars, ledgerVars, posted, venue, venue_pos,
                   configVars, stream, trader, predict, ticks, alive>>

\* ------------------------------------------------------- specifications

\* After construction: an empty cache, an empty ledger, nothing submitted.
InitData ==
    /\ bar_hist = [s \in Symbols |-> <<>>]
    /\ last_bar = [s \in Symbols |-> None]
    /\ last_mid_price = [s \in Symbols |-> None]
    /\ trade_update = [s \in Symbols |-> [id \in OrderIds |-> None]]
    /\ last_trade_price = [s \in Symbols |-> None]
    /\ trade_tick_hist = [s \in Symbols |-> <<>>]
    /\ trade_log = [s \in Symbols |-> <<>>]
    /\ last_quote = [s \in Symbols |-> None]
    /\ get_requests = 0
    /\ ticks = [s \in Symbols |-> 0]
    /\ submitted_order_by_order_id = [s \in Symbols |-> {}]
    /\ posted = <<>>
    /\ venue = [id \in OrderIds |-> [status |-> "none", filled |-> 0]]
    /\ stream = "stopped"
    /\ predict = [s \in Symbols |-> NoPredict]
    /\ client = NewClient
    /\ alive = TRUE

InitTraders ==
    /\ positions_by_symbol = [s \in Symbols |-> Absent]
    /\ trader = [s \in Symbols |-> NewTrader]

\* One trader, shortable or not, with the position cap MaxCap, on an account
\* that holds any position in its symbol.
Init ==
    /\ InitData /\ InitTraders
    /\ symbols = {"TSLA"}
    /\ venue_pos \in [Symbols -> PosRange]
    /\ \A s \in Symbols \ symbols : venue_pos[s] = 0
    /\ shortable \in [Symbols -> BOOLEAN]
    /\ \A s \in Symbols \ symbols : shortable[s]
    /\ max_position = [s \in Symbols |-> MaxCap]

\* What the feed can deliver next.  A snapshot lists the account's non-zero
\* positions or some of them; the n-th bar of a symbol closes at n; a fill
\* event fills what is left of the order, a partial fill less.
Snapshots ==
    {r \in Responses : \A s \in Symbols :
         r[s] # Absent => venue_pos[s] # 0 /\ r[s] = Some(venue_pos[s])}
Fills(id, ev) ==
    LET left == posted[id].request.qty - venue[id].filled
    IN  IF ev = FILL THEN {left} ELSE IF ev = PARTIAL_FILL THEN 1..(left - 1) ELSE {0}

Feed ==
    \/ /\ stream = "stopped"
       /\ \/ \E response \in Snapshots : start("200", response)
          \/ \E status \in HttpStatus \ {"200"} : start(status, [s \in Symbols |-> Absent])
    \/ \E s \in symbols : Len(bar_hist[s]) < MaxBars /\ on_bar(s, Len(bar_hist[s]) + 1)
    \/ \E s \in symbols : on_quote(s, 99, 101)
    \/ \E id \in 1..Len(posted), ev \in Events :
           \E k \in Fills(id, ev) : trade_update_event(id, ev, k)

\* A trader's loop: the prediction is read on a grown bar history only, the
\* outcome of a POST when an order is inserted only.
Traders ==
    \/ \E s \in symbols :
           /\ trader[s].pc \in {"start", "sleep"}
           /\ \E regime_pred_seq \in IF iteration(s, 0).branch = "new_bar"
                                     THEN Predictions(s) ELSE {<<0>>} :
              \E outcome \in IF iteration(s, predict_last(regime_pred_seq)).t.pc
                                    = "insert_order"
                             THEN Outcomes ELSE {[status |-> "200", accepted |-> TRUE]} :
                  main(s, regime_pred_seq, outcome) /\ UNCHANGED ticks
    \/ \E s \in symbols : insert_order_returns(s)

Next == Feed \/ Traders

\* An iteration of trader s that is counted: every completed iteration flips
\* the trader's parity.
tick(s) ==
    /\ trader[s].pc \in {"start", "sleep"}
    /\ \E regime_pred_seq \in IF iteration(s, 0).branch = "new_bar"
                              THEN Predictions(s) ELSE {<<0>>} :
       \E outcome \in IF iteration(s, predict_last(regime_pred_seq)).t.pc = "insert_order"
                      THEN Outcomes ELSE {[status |-> "200", accepted |-> TRUE]} :
           main(s, regime_pred_seq, outcome)
    /\ ticks' = [ticks EXCEPT ![s] = 1 - @]

Spec == Init /\ [][Next]_vars

\* order_volume alone: a trader in either regime, with any configuration and
\* any ledger position, computes its volume.
InitSizing ==
    /\ InitData
    /\ symbols = {"TSLA"}
    /\ venue_pos = [s \in Symbols |-> 0]
    /\ shortable \in [Symbols -> BOOLEAN]
    /\ max_position \in [Symbols -> 0..(MaxCap + 1)]
    /\ \A s \in Symbols \ symbols : shortable[s] /\ max_position[s] = MaxCap
    /\ \E label \in {0, 1}, qty \in {Absent} \cup {Some(q) : q \in PosRange} :
           /\ trader = [s \in Symbols |-> IF s \in symbols
                                          THEN set_regime(NewTrader, label)
                                          ELSE NewTrader]
           /\ positions_by_symbol = [s \in Symbols |-> IF s \in symbols
                                                       THEN qty ELSE Absent]

call_order_volume(s) ==
    /\ s \in symbols
    /\ trader' = [trader EXCEPT ![s].volume =
           order_volume(trader[s].bull_regime, trader[s].bear_regime, shortable[s],
                        max_position[s], get_position_by_symbol(s))]
    /\ UNCHANGED <<cacheVars, ledgerVars, orderVars, configVars, stream,
                   predict, ticks, client, alive>>

NextSizing == \E s \in Symbols : call_order_volume(s)

SpecSizing == InitSizing /\ [][NextSizing]_vars

\* insert_order alone, called with any arguments.
InitInsert ==
    /\ InitData /\ InitTraders
    /\ symbols = {}
    /\ venue_pos = [s \in Symbols |-> 0]
    /\ shortable = [s \in Symbols |-> TRUE]
    /\ max_position = [s \in Symbols |-> MaxCap]

NextInsert ==
    \/ \E symbol \in Symbols, price \in Mids, quantity \in {1}, side \in Sides,
          order_type \in OrderTypes, outcome \in Outcomes :
           insert_order(symbol, price, quantity, side, order_type, outcome)
    \/ insert_order_result

SpecInsert == InitInsert /\ [][NextInsert]_vars

\* One shortable trader on a flat account, with one more bar than above and
\* its iterations counted.
InitBars ==
    /\ InitData /\ InitTraders
    /\ symbols = {"TSLA"}
    /\ venue_pos = [s \in Symbols |-> 0]
    /\ shortable = [s \in Symbols |-> TRUE]
    /\ max_position = [s \in Symbols |-> MaxCap]

NextBars ==
    \/ start("200", [s \in Symbols |-> Absent])
    \/ \E s \in symbols :
           Len(bar_hist[s]) < MaxBars + 1 /\ on_bar(s, Len(bar_hist[s]) + 1)
    \/ \E s \in symbols : on_quote(s, 99, 101)
    \/ \E id \in 1..Len(posted), ev \in Events :
           \E k \in Fills(id, ev) : trade_update_event(id, ev, k)
    \/ \E s \in symbols : tick(s)
    \/ \E s \in symbols : insert_order_returns(s)

SpecBars == InitBars /\ [][NextBars]_vars

\* The same under the event loop's scheduling: an iteration whose sleep is
\* over and a reply that has arrived are taken eventually.
SpecFair ==
    /\ InitBars /\ [][NextBars]_vars
    /\ \A s \in Symbols : WF_vars(tick(s)) /\ WF_vars(insert_order_returns(s))

\* The same trader when the venue answers an IOC order at once: it fills the
\* order whole or cancels it.
NextPredict ==
    \/ start("200", [s \in Symbols |-> Absent])
    \/ \E s \in symbols :
           Len(bar_hist[s]) < MaxBars + 1 /\ on_bar(s, Len(bar_hist[s]) + 1)
    \/ \E s \in symbols : on_quote(s, 99, 101)
    \/ \E id \in 1..Len(posted), ev \in {FILL, CANCELED} :
           \E k \in Fills(id, ev) : trade_update_event(id, ev, k)
    \/ \E s \in symbols : tick(s)
    \/ \E s \in symbols : insert_order_returns(s)

SpecPredict == InitBars /\ [][NextPredict]_vars

\* The cache alone, for every symbol of the stream: the snapshot of a flat
\* account, then trade ticks at either of two prices, or quotes with a zero
\* or a non-zero side whose sum is even or odd.
InitCache ==
    /\ InitData /\ InitTraders
    /\ symbols = Symbols
    /\ venue_pos = [s \in Symbols |-> 0]
    /\ shortable = [s \in Symbols |-> TRUE]
    /\ max_position = [s \in Symbols |-> MaxCap]

TradePrices == {10, 20}
Bids == {0, 99, 100}
Asks == {0, 101}

NextTrades ==
    \/ start("200", [s \in Symbols |-> Absent])
    \/ \E s \in symbols, price \in TradePrices :
           Len(trade_log[s]) < MaxTrades /\ on_trade(s, price)

SpecTrades == InitCache /\ [][NextTrades]_vars

NextQuotes ==
    \/ start("200", [s \in Symbols |-> Absent])
    \/ \E s \in symbols, bid \in Bids, ask \in Asks : on_quote(s, bid, ask)

SpecQuotes == InitCache /\ [][NextQuotes]_vars

\* The trader of InitBars under quotes whose mid price varies (99/101 gives 100,
\* 100/101 gives 100.5, which rounds to either cent).
NextRegime ==
    \/ start("200", [s \in Symbols |-> Absent])
    \/ \E s \in symbols :
           Len(bar_hist[s]) < MaxBars + 1 /\ on_bar(s, Len(bar_hist[s]) + 1)
    \/ \E s \in symbols, bid \in Bids \ {0}, ask \in Asks \ {0} : on_quote(s, bid, ask)
    \/ \E id \in 1..Len(posted), ev \in {FILL, CANCELED} :
           \E k \in Fills(id, ev) : trade_update_event(id, ev, k)
    \/ \E s \in symbols : tick(s)
    \/ \E s \in symbols : insert_order_returns(s)

SpecRegime == InitBars /\ [][NextRegime]_vars

\* Two traders, of which the first posts orders whose reply never comes: its
\* insert_order never returns.  The event loop runs every coroutine that is
\* ready, so an iteration whose sleep is over and a reply that has arrived
\* are taken eventually.
Stalled == "TSLA"

NextStall ==
    \/ start("200", [s \in Symbols |-> Absent])
    \/ \E s \in symbols : Len(bar_hist[s]) < MaxBars /\ on_bar(s, Len(bar_hist[s]) + 1)
    \/ \E s \in symbols : on_quote(s, 99, 101)
    \/ \E id \in 1..Len(posted), ev \in Events :
           \E k \in Fills(id, ev) : trade_update_event(id, ev, k)
    \/ \E s \in symbols : tick(s)
    \/ \E s \in symbols \ {Stalled} : insert_order_returns(s)

SpecStall ==
    /\ InitCache /\ [][NextStall]_vars
    /\ \A s \in Symbols : WF_vars(tick(s))
    /\ \A s \in Symbols \ {Stalled} : WF_vars(insert_order_returns(s))

\* The ledger alone: get_positions called on the ledger as it is, for all
\* symbols or for one (a response that lists one symbol), and on_trade_update
\* called with any event and any resulting quantity.  The caller's record
\* keeps its last call.
call_get_positions(status, response) ==
    /\ alive
    /\ positions_by_symbol' = get_positions(positions_by_symbol, status, response)
    /\ get_requests' = 1
    /\ client' = [NewClient EXCEPT !.args = Some(<<"get_positions", status, response>>)]
    /\ UNCHANGED <<cacheVars, orderVars, configVars, stream, trader, predict, ticks,
                   alive>>

call_on_trade_update(s, ev, position_qty) ==
    /\ alive
    /\ on_trade_update(s, 1, ev, position_qty)
    /\ client' = [NewClient EXCEPT !.args = Some(<<"on_trade_update", s, ev, position_qty>>)]
    /\ UNCHANGED <<bar_hist, last_bar, last_mid_price, last_quote, tradeVars,
                   get_requests, orderVars, configVars, stream, trader, predict,
                   ticks, alive>>

NextLedger ==
    \/ \E response \in Responses : call_get_positions("200", response)
    \/ \E status \in HttpStatus \ {"200"} :
           call_get_positions(status, [s \in Symbols |-> Absent])
    \/ \E s \in Symbols, ev \in Events, position_qty \in PosRange :
           call_on_trade_update(s, ev, position_qty)

SpecLedger == InitInsert /\ [][NextLedger]_vars

\* ---------------------------------------------------------------- claims

\* A step in which trader s runs a loop iteration that changes its state, and
\* a step in which it posts an order.
Ticks(s) == trader[s].pc \in {"start", "sleep"} /\ trader'[s] # trader[s]
Posts(s) == Len(posted') = Len(posted) + 1 /\ posted'[Len(posted')].caller = s
Sizing == {"no_new_bar", "new_bar", "shrunk"}

\* The event recorded for the trader's last order is neither fill nor
\* canceled.
LastOrderOpen(s) ==
    /\ trader[s].last_order_id # None
    /\ trade_update[s][Val(trader[s].last_order_id)] # None
    /\ Val(trade_update[s][Val(trader[s].last_order_id)]).event \notin {"fill", "canceled"}

\* C1: a trader posts no order in an iteration that starts while the event
\* recorded for its last order id is a non-terminal one (anything but fill or
\* canceled), whatever callbacks and iterations came before.
C1_NoOrderWhileLastOrderOpen ==
    [][\A s \in Symbols : Posts(s) => ~LastOrderOpen(s)]_vars

\* C1's case: the trader had a volume to trade and held back because its last
\* order is still open.
C1_Witness ==
    \E s \in Symbols :
        /\ LastOrderOpen(s)
        /\ trader[s].pc = "sleep"
        /\ trader[s].volume # Unbound /\ Val(trader[s].volume) # 0
        /\ trader[s].last_order_close = Some(FALSE)

\* The orders of trader s that the venue has accepted and not yet filled,
\* canceled or rejected.
Outstanding(s) ==
    {id \in 1..Len(posted) : posted[id].caller = s /\ venue[id].status \in VenueOpen}

\* C2: at every state, at most one order of a symbol's trader is outstanding
\* at the venue.
C2_AtMostOneOutstanding ==
    \A s \in Symbols : Cardinality(Outstanding(s)) <= 1

\* The sizing table of the specification.
SizingTable(regime, short, M, pos) ==
    CASE regime = "Bull" /\ pos >= 0 -> M - pos
      [] regime = "Bull" /\ pos < 0 -> Abs(pos)
      [] regime = "Bear" /\ short /\ pos > 0 -> pos
      [] regime = "Bear" /\ short /\ pos <= 0 -> M - Abs(pos)
      [] regime = "Bear" /\ ~short -> Abs(pos)

Regime(s) ==
    IF trader[s].bull_regime = Some(TRUE) THEN "Bull"
    ELSE IF trader[s].bear_regime = Some(TRUE) THEN "Bear" ELSE "Unset"

\* C3: the volume order_volume returns is the sizing table's, for either
\* regime, either shortable flag, every cap and every ledger position.
C3_OrderVolumeIsSizingTable ==
    \A s \in symbols :
        trader[s].volume # Unbound =>
            Val(trader[s].volume) =
                SizingTable(Regime(s), shortable[s], max_position[s],
                            get_position_by_symbol(s))

\* C3's case: a Bear, shortable trader that is short has sized the rest of its
\* cap.
C3_Witness ==
    \E s \in symbols :
        /\ Regime(s) = "Bear" /\ shortable[s]
        /\ get_position_by_symbol(s) < 0
        /\ trader[s].volume = Some(max_position[s] - Abs(get_position_by_symbol(s)))

\* C4: a trader that has reached sizing (it has processed a new bar) with no
\* regime ever set has computed the volume 0 and attempts no order.
C4_UnsetRegimeVolumeZero ==
    \A s \in symbols :
        (trader[s].feature_array # <<>> /\ Regime(s) = "Unset"
         /\ trader[s].bull_regime = None) =>
            (trader[s].volume = Some(0) /\ trader[s].pc # "insert_order")

\* C5: the iteration in which a trader first sees bars for its symbol (it
\* has no last close yet) posts no order, does not call predict, and seeds
\* the last close and the bar count from the bars present, however many.
C5_FirstBarsSeed ==
    [][\A s \in Symbols :
          (Ticks(s) /\ bar_hist[s] # <<>> /\ trader[s].last_close_price = None) =>
              /\ posted' = posted
              /\ predict' = predict
              /\ trader'[s].last_close_price = last_bar[s]
              /\ trader'[s].last_bar_hist_size = Some(Len(bar_hist[s]))]_vars

\* C6: every sell order posted by a trader that is not shortable sells at
\* most the positive position of the ledger (nothing when the ledger is flat
\* or short).
C6_NotShortableNeverShorts ==
    [][\A s \in Symbols :
          (Posts(s) /\ ~shortable[s]
           /\ posted'[Len(posted')].request.side = "sell") =>
              posted'[Len(posted')].request.qty <=
                  (IF get_position_by_symbol(s) > 0
                   THEN get_position_by_symbol(s) ELSE 0)]_vars

\* A step in which the direct caller's insert_order is called, and one in
\* which it returns.
Calls == client.pc # "insert_order" /\ client' # client
Returns == client.pc = "insert_order" /\ client'.pc = "idle"

\* C7: a call of insert_order that passes its assertions sends one request
\* and its return sends none; after a 200 reply the result is a success with
\* the venue's order id, recorded under the symbol; after any other status or
\* an exception the result is a failure with no order id and an error reason,
\* and the table of submitted orders is unchanged.
C7_InsertOrderOneRequestNoRetry ==
    [][/\ (Calls /\ client'.pc = "insert_order") => Len(posted') = Len(posted) + 1
       /\ Returns =>
            /\ posted' = posted
            /\ LET r == Val(client.resp)
                   res == Val(client'.result)
                   symbol == posted[r.id].request.symbol
               IN  IF r.status = "200"
                   THEN /\ res.success = TRUE
                        /\ res.order_id = Some(r.id)
                        /\ r.id \in submitted_order_by_order_id'[symbol]
                   ELSE /\ res.success = FALSE
                        /\ res.order_id = None
                        /\ res.error_reason # None
                        /\ submitted_order_by_order_id' = submitted_order_by_order_id
      ]_vars

\* C7's case: a call has failed after an earlier one succeeded, and the table
\* holds the earlier id only.
C7_Witness ==
    /\ client.pc = "idle" /\ client.result # None
    /\ Val(client.result).success = FALSE
    /\ Len(posted) = 2
    /\ \E s \in Symbols : submitted_order_by_order_id[s] = {1}

BadArgs(a) == a[4] \notin {"buy", "sell"} \/ a[5] \notin {"limit", "ioc"}

\* C8: a call of insert_order with a side outside {buy, sell} or a type
\* outside {limit, ioc} raises AssertionError at once: no request is sent, no
\* result is returned, and the table of submitted orders is unchanged.
C8_BadSideOrTypeFailsFast ==
    [][(Calls /\ client'.args # None /\ BadArgs(Val(client'.args))) =>
          /\ posted' = posted
          /\ submitted_order_by_order_id' = submitted_order_by_order_id
          /\ client'.pc = "raised"
          /\ client'.error = Some("AssertionError")
          /\ client'.result = None]_vars

\* C8's case: a call with a valid side and the type "market" has raised,
\* after an earlier call was posted.
C8_Witness ==
    /\ client.pc = "raised" /\ client.args # None
    /\ Val(client.args)[4] = "buy" /\ Val(client.args)[5] = "market"
    /\ Len(posted) = 1

SameButType(a, b) ==
    /\ a.symbol = b.symbol /\ a.price = b.price
    /\ a.quantity = b.quantity /\ a.side = b.side

\* C9: two calls of insert_order that agree on symbol, price, quantity and
\* side send the same request, whatever their types, and it is a limit order
\* with time in force ioc.
C9_RequestIndependentOfType ==
    \A i, j \in 1..Len(posted) :
        SameButType(posted[i].args, posted[j].args) =>
            /\ posted[i].request = posted[j].request
            /\ posted[i].request.type = "limit"
            /\ posted[i].request.time_in_force = "ioc"

\* C9's case: two requests were sent by calls that differ in the type only.
C9_Witness ==
    \E i, j \in 1..Len(posted) :
        /\ SameButType(posted[i].args, posted[j].args)
        /\ posted[i].args.order_type = "limit" /\ posted[j].args.order_type = "ioc"

\* What the claim says last_order_is_close answers for trader s.
ClearToTrade(s) ==
    IF trader[s].last_order_id = None
    THEN TRUE
    ELSE IF trade_update[s][Val(trader[s].last_order_id)] = None
         THEN TRUE
         ELSE Val(trade_update[s][Val(trader[s].last_order_id)]).event
                  \in {"fill", "canceled"}

\* C10: in every iteration that reaches the check, last_order_is_close
\* answers true when the trader has no last order id and when no event is
\* stored for that id, and otherwise true exactly when the stored event is
\* fill or canceled.
C10_LastOrderIsClose ==
    [][\A s \in Symbols :
          (Ticks(s) /\ trader'[s].pc # "raised" /\ iteration(s, 0).branch \in Sizing) =>
              trader'[s].last_order_close = Some(ClearToTrade(s))]_vars

\* C10's case: the check has answered false for a partially filled last
\* order.
C10_Witness ==
    \E s \in Symbols :
        /\ trader[s].last_order_id # None
        /\ trade_update[s][Val(trader[s].last_order_id)] = Some([event |-> "partial_fill"])
        /\ trader[s].last_order_close = Some(FALSE)

\* A step that is a call of the method named, by the caller of the ledger.
LastCall(method) ==
    /\ client' # client \/ positions_by_symbol' # positions_by_symbol
          \/ trade_update' # trade_update
    /\ client'.args # None /\ Val(client'.args)[1] = method

\* C11: a fill or partial-fill notification for a symbol sets the ledger's
\* quantity of that symbol to the quantity it carries, whatever was stored
\* (so a second delivery of it changes nothing), and leaves every other
\* symbol's quantity; any other notification leaves the whole ledger.
C11_FillReplacesQuantity ==
    [][LastCall("on_trade_update") =>
          LET s == Val(client'.args)[2]
              ev == Val(client'.args)[3]
              q == Val(client'.args)[4]
          IN  IF ev \in {"fill", "partial_fill"}
              THEN /\ positions_by_symbol'[s] = Some(q)
                   /\ \A o \in Symbols \ {s} :
                          positions_by_symbol'[o] = positions_by_symbol[o]
                   /\ update_position(positions_by_symbol', s, q) = positions_by_symbol'
              ELSE positions_by_symbol' = positions_by_symbol]_vars

\* C11's case: a fill carrying -1 was delivered for a symbol while the ledger
\* held a quantity for the other symbol.
C11_Witness ==
    /\ client.args = Some(<<"on_trade_update", "TSLA", "fill", 0 - 1>>)
    /\ positions_by_symbol["TSLA"] = Some(0 - 1)
    /\ positions_by_symbol["AAPL"] = Some(2)

\* C12: a get_positions that is answered 200 sets the quantity of every
\* symbol the response lists to the listed quantity and leaves the quantity of
\* every symbol it does not list; no get_positions, whatever its answer,
\* removes a symbol from the ledger.
C12_SnapshotKeepsAbsentSymbols ==
    [][LastCall("get_positions") =>
          LET status == Val(client'.args)[2]
              response == Val(client'.args)[3]
          IN  /\ status = "200" =>
                     \A s \in Symbols :
                         positions_by_symbol'[s] =
                             IF response[s] # Absent THEN response[s]
                             ELSE positions_by_symbol[s]
              /\ \A s \in Symbols :
                     positions_by_symbol[s] # Absent => positions_by_symbol'[s] # Absent]_vars

\* C12's case: the last call was a get_positions answered 200 that listed
\* TSLA only, and the ledger still holds the quantity of AAPL.
C12_Witness ==
    /\ client.args = Some(<<"get_positions", "200",
                            [s \in Symbols |-> IF s = "TSLA" THEN Some(1) ELSE Absent]>>)
    /\ positions_by_symbol = [s \in Symbols |-> IF s = "TSLA" THEN Some(1) ELSE Some(2)]

\* The last n elements of a sequence.
LastN(seq, n) == SubSeq(seq, Len(seq) - n + 1, Len(seq))
Min(a, b) == IF a < b THEN a ELSE b

\* C13: after any trade ticks, every symbol's history holds the most recent
\* ticks of that symbol in arrival order, as many as were pushed up to the
\* capacity, and its last trade price is the price of the most recent one
\* (none before the first); ticks of another symbol change neither.
C13_TradeHistoryIsRing ==
    \A s \in Symbols :
        /\ Len(trade_tick_hist[s]) = Min(Len(trade_log[s]), MaxHist)
        /\ trade_tick_hist[s] = LastN(trade_log[s], Min(Len(trade_log[s]), MaxHist))
        /\ get_last_trade_price(s) =
               IF trade_log[s] = <<>> THEN None
               ELSE Some(trade_log[s][Len(trade_log[s])])

\* C13's case: more ticks than the capacity were pushed for one symbol, the
\* first at another price than the last, and the history of the other symbol
\* holds its single tick.
C13_Witness ==
    /\ Len(trade_log["TSLA"]) = MaxTrades
    /\ trade_log["TSLA"][1] = 10 /\ trade_log["TSLA"][MaxTrades] = 20
    /\ Len(trade_tick_hist["TSLA"]) = MaxHist
    /\ trade_tick_hist["AAPL"] = <<10>>

\* C14: a quote with a zero bid or a zero ask is stored as the symbol's last
\* quote and leaves its mid price (absent or not); a quote with both sides
\* non-zero is stored and sets the mid price to the average of the sides
\* rounded to a cent; no quote changes the mid price of another symbol.
C14_MidPriceOnlyFromTwoSidedQuote ==
    [][\A s \in Symbols, bid \in Bids, ask \in Asks :
          on_quote(s, bid, ask) =>
              /\ last_quote'[s] = Some([bid_price |-> bid, ask_price |-> ask])
              /\ IF bid = 0 \/ ask = 0
                 THEN last_mid_price'[s] = last_mid_price[s]
                 ELSE /\ last_mid_price'[s] # None
                      /\ Abs(2 * Val(last_mid_price'[s]) - (bid + ask)) <= 1
              /\ \A o \in Symbols \ {s} : last_mid_price'[o] = last_mid_price[o]]_vars

\* C14's case: a one-sided quote is the last quote of a symbol whose mid
\* price is still the one of an earlier two-sided quote, and of a symbol that
\* has no mid price.
C14_Witness ==
    /\ last_quote["TSLA"] = Some([bid_price |-> 0, ask_price |-> 101])
    /\ last_mid_price["TSLA"] = Some(100)
    /\ last_quote["AAPL"] = Some([bid_price |-> 99, ask_price |-> 0])
    /\ last_mid_price["AAPL"] = None

\* The regime fields of a trader record.
RegimeFields(t) == <<t.bull_regime, t.bear_regime, t.side>>

\* C15: an iteration that finds more bars than it last saw calls predict
\* once, on the matrix made of every earlier row in order and the row just
\* appended, and the trader's regime after it follows from the last label of
\* what predict returned (1: Bear, 0: Bull, any other label leaves the regime
\* as it was), whatever the earlier labels of the returned sequence.
C15_PredictOnceOnWholeMatrix ==
    [][\A s \in Symbols :
          (ticks'[s] # ticks[s] /\ iteration(s, 0).branch = "new_bar") =>
          \A regime_pred_seq \in Predictions(s) :
          (\E outcome \in Outcomes : main(s, regime_pred_seq, outcome)) =>
              LET rows == trader[s].feature_array
                  last == regime_pred_seq[Len(regime_pred_seq)]
              IN  /\ predict'[s].calls = predict[s].calls + 1
                  /\ predict'[s].X = Some(trader'[s].feature_array)
                  /\ Len(trader'[s].feature_array) = Len(rows) + 1
                  /\ SubSeq(trader'[s].feature_array, 1, Len(rows)) = rows
                  /\ RegimeFields(trader'[s]) =
                         IF last = 1 THEN <<Some(FALSE), Some(TRUE), Some("sell")>>
                         ELSE IF last = 0 THEN <<Some(TRUE), Some(FALSE), Some("buy")>>
                         ELSE RegimeFields(trader[s])]_vars

\* C15's case: predict was called a second time, on a matrix of two rows,
\* and the trader that bought after the first call is now in the Bear regime.
C15_Witness ==
    \E s \in symbols :
        /\ predict[s].calls = 2
        /\ predict[s].X = Some(trader[s].feature_array)
        /\ Len(trader[s].feature_array) = 2
        /\ Len(posted) >= 1 /\ posted[1].request.side = "buy"
        /\ Regime(s) = "Bear"

\* C16: no iteration of a trader's loop ends the loop: whatever the cache,
\* the ledger and the model's labels, the iteration completes and the trader
\* goes on to its sleep or to the reply of its order, from where it iterates
\* again.
C16_NoTickEndsTheLoop ==
    [][\A s \in Symbols :
          Ticks(s) => (trader'[s].pc \in {"sleep", "insert_order"} /\ alive')]_vars

\* The log of requests of the model is full: an iteration that has an order
\* to insert cannot be taken.
LogFull == Len(posted) >= MaxOrders

\* C17: once the insert_order call of one trader is pending and never
\* returns, every other trader still completes iterations again and again
\* (as long as the model's log of requests has room).
C17_StallBlocksOnlyItsTrader ==
    \A s \in Symbols \ {Stalled} :
        [](trader[Stalled].pc = "insert_order" =>
              /\ []<>(ticks[s] = 0 \/ LogFull)
              /\ []<>(ticks[s] = 1 \/ LogFull))

\* With no iteration that raises, the stall of one trader's insert_order
\* leaves every other trader iterating.
StallBlocksOnlyItsTraderUnlessRaised ==
    \A s \in Symbols \ {Stalled} :
        [](trader[Stalled].pc = "insert_order" =>
              /\ []<>(ticks[s] = 0 \/ LogFull \/ ~alive)
              /\ []<>(ticks[s] = 1 \/ LogFull \/ ~alive))

\* The fields an iteration without a new bar leaves alone.
BarFields(t) ==
    <<t.feature_array, t.bull_regime, t.bear_regime, t.side, t.price_modifier,
      t.last_close_price, t.last_bar_hist_size>>

\* The volume of the sizing table for the trader's regime and the ledger's
\* position is defined and not zero.
VolumeNonZero(s) ==
    /\ Regime(s) # "Unset"
    /\ SizingTable(Regime(s), shortable[s], max_position[s],
                   get_position_by_symbol(s)) # 0

\* C18: an iteration that finds as many bars as it last saw leaves the
\* feature matrix, the regime, the side, the price modifier, the last close
\* and the bar count, does not call predict, and posts an order exactly when
\* the volume for the ledger's position is not zero and the last order is
\* ended or absent.
C18_NoNewBarStillTrades ==
    [][\A s \in Symbols :
          (/\ ticks'[s] # ticks[s] /\ bar_hist[s] # <<>>
           /\ trader[s].last_bar_hist_size = Some(Len(bar_hist[s]))) =>
              /\ BarFields(trader'[s]) = BarFields(trader[s])
              /\ predict' = predict
              /\ Posts(s) <=> (VolumeNonZero(s) /\ ClearToTrade(s))
              /\ ~Posts(s) => posted' = posted]_vars

\* C18's case: predict was called once, and the trader has posted a second
\* order, so in an iteration that found no new bar.
C18_Witness ==
    \E s \in symbols :
        /\ predict[s].calls = 1
        /\ trader[s].last_bar_hist_size = Some(Len(bar_hist[s]))
        /\ Len(posted) = 2 /\ posted[1].caller = s /\ posted[2].caller = s
        /\ trader[s].pc = "insert_order"

\* C19: an iteration of a trader whose symbol has no bar history skips: the
\* getter returns None and the cache has no new entry, no field of the trader
\* changes, predict is not called, no order is posted, and the trader goes to
\* its sleep, whatever quotes and positions of the symbol are there.
C19_NoBarsIsPureSkip ==
    [][\A s \in Symbols :
          (Ticks(s) /\ bar_hist[s] = <<>>) =>
              /\ get_bar_hist(s) = None
              /\ trader'[s] = [trader[s] EXCEPT !.pc = "sleep"]
              /\ bar_hist' = bar_hist /\ last_bar' = last_bar
              /\ predict' = predict
              /\ posted' = posted /\ alive']_vars

\* C19's case: a trader sleeps after an iteration that found no bars while a
\* mid price and a position of its symbol were there.
C19_Witness ==
    \E s \in symbols :
        /\ bar_hist[s] = <<>> /\ trader[s] = [NewTrader EXCEPT !.pc = "sleep"]
        /\ last_mid_price[s] # None
        /\ positions_by_symbol[s] # Absent

\* C20: after every iteration of a trader that has seen bars (and did not
\* raise), the feature matrix has one row per bar after the first: as many
\* rows as the bar count it stored less one, which is the length of the bar
\* history it read less one; and the rows it had are still there, in order.
C20_OneRowPerBar ==
    [][\A s \in Symbols :
          (Ticks(s) /\ bar_hist[s] # <<>> /\ trader'[s].pc # "raised") =>
              /\ trader'[s].last_bar_hist_size = Some(Len(bar_hist[s]))
              /\ Len(trader'[s].feature_array) = Len(bar_hist[s]) - 1
              /\ SubSeq(trader'[s].feature_array, 1, Len(trader[s].feature_array))
                     = trader[s].feature_array]_vars

\* The regime fields of trader record t are consistent: not both flags set,
\* Bull with side buy and offset +0.1, Bear with side sell and offset -0.1,
\* and all of them unset together.
Consistent(t) ==
    /\ ~(t.bull_regime = Some(TRUE) /\ t.bear_regime = Some(TRUE))
    /\ t.bull_regime = Some(TRUE) <=>
           (t.side = Some("buy") /\ t.price_modifier = Some(10))
    /\ t.bear_regime = Some(TRUE) <=>
           (t.side = Some("sell") /\ t.price_modifier = Some(0 - 10))
    /\ (t.bull_regime = None) = (t.bear_regime = None)
    /\ (t.bull_regime = None) = (t.side = None)
    /\ (t.bull_regime = None) = (t.price_modifier = Unbound)

\* C21: at every state (the event loop is between two suspension points)
\* the regime fields of every trader are consistent, and every order a
\* trader posts is a buy at the mid price + 0.1 when it is in the Bull regime
\* and a sell at the mid price - 0.1 when it is in the Bear regime (it is in
\* one of the two).
C21_RegimeFieldsConsistent ==
    /\ [](\A s \in Symbols : Consistent(trader[s]))
    /\ [][\A s \in Symbols :
             Posts(s) =>
                 LET order == posted'[Len(posted')].request
                     mid == Val(last_mid_price[s])
                 IN  \/ /\ trader'[s].bull_regime = Some(TRUE)
                        /\ order.side = "buy" /\ order.limit_price = mid + 10
                     \/ /\ trader'[s].bear_regime = Some(TRUE)
                        /\ order.side = "sell" /\ order.limit_price = mid - 10]_vars

\* C21's case: a trader that bought at 101.1 in the Bull regime has turned
\* Bear and sold at 99.9.
C21_Witness ==
    \E s \in symbols :
        /\ Len(posted) = 2
        /\ posted[1].caller = s /\ posted[2].caller = s
        /\ posted[1].request.side = "buy" /\ posted[1].request.limit_price = 111
        /\ posted[2].request.side = "sell" /\ posted[2].request.limit_price = 90
        /\ trader[s].bear_regime = Some(TRUE) /\ trader[s].bull_regime = Some(FALSE)

\* C22: a get_positions whose fetch raises or is answered with a status
\* other than 200 returns to its caller without an exception, has sent one
\* GET request, and leaves the ledger as it was: every stored quantity is
\* unchanged and get_position_by_symbol returns what it returned before (0
\* for a symbol the ledger never held).
C22_FailedRefreshKeepsLedger ==
    [][(LastCall("get_positions") /\ Val(client'.args)[2] # "200") =>
          /\ client'.pc = "idle" /\ client'.error = None /\ alive'
          /\ get_requests' = 1
          /\ positions_by_symbol' = positions_by_symbol
          /\ \A s \in Symbols :
                 /\ get_position_by_symbol(s)' = get_position_by_symbol(s)
                 /\ positions_by_symbol[s] = Absent =>
                        get_position_by_symbol(s)' = 0]_vars

\* C22's case: the last call was a get_positions whose fetch raised, and the
\* ledger holds the quantity it held for TSLA and nothing for AAPL.
C22_Witness ==
    /\ client.args = Some(<<"get_positions", "exception", [s \in Symbols |-> Absent]>>)
    /\ client.pc = "idle" /\ get_requests = 1
    /\ positions_by_symbol["TSLA"] = Some(0 - 2)
    /\ positions_by_symbol["AAPL"] = Absent
    /\ get_position_by_symbol("AAPL") = 0

\* The quantity q is within the cap of trader s: between -max_position and
\* max_position, and not negative when the symbol is not shortable.
WithinCap(s, q) ==
    /\ q <= max_position[s]
    /\ q >= (IF shortable[s] THEN 0 - max_position[s] ELSE 0)

\* C23: on an account that starts flat and whose position moves only by the
\* fills of the trader's own orders (each at most the order's quantity), the
\* position of the trader's symbol, the account's and the ledger's, is within
\* the trader's cap at every state.
C23_PositionWithinCap ==
    \A s \in symbols :
        WithinCap(s, venue_pos[s]) /\ WithinCap(s, get_position_by_symbol(s))

\* C24: every order a trader has posted has a quantity greater than 0,
\* whatever position the ledger held when it was sized (a position beyond
\* the cap included).
C24_PostedQuantityPositive ==
    \A id \in 1..Len(posted) :
        posted[id].caller \in Symbols => posted[id].request.qty > 0

\* The event recorded for order id of symbol s is fill or canceled.
RecordedTerminal(s, id) ==
    trade_update[s][id] # None /\ Val(trade_update[s][id]).event \in {"fill", "canceled"}

\* C25: once the event recorded for an order id is fill or canceled, it is
\* fill or canceled after every later trade update, so last_order_is_close
\* for that id stays true.
C25_TerminalStatusIsStable ==
    [][\A s \in Symbols, id \in OrderIds :
          RecordedTerminal(s, id) =>
              (RecordedTerminal(s, id)' /\ last_order_is_close(Some(id), s)')]_vars

\* The venue has closed the last order of trader s (filled, canceled or
\* rejected it) and that closing event is the one recorded for the order.
FinalDelivered(s) ==
    /\ trader[s].last_order_id # None
    /\ venue[Val(trader[s].last_order_id)].status \in VenueClosed
    /\ trade_update[s][Val(trader[s].last_order_id)] =
           Some([event |-> venue[Val(trader[s].last_order_id)].status])

\* C26: under the event loop's scheduling, once the closing event of a
\* trader's last order has been delivered, whichever it is, the trader's
\* last_order_is_close is eventually true (unless an exception has ended the
\* process), so that the order does not hold the trader back for ever.
C26_FinishedOrderNeverBlocks ==
    \A s \in Symbols :
        [](FinalDelivered(s) =>
               <>(~alive \/ last_order_is_close(trader[s].last_order_id, s)))
====
